---- MODULE Spec2Model ----
(***************************************************************************)
(* Model of the till checker (src/src/checking/checker.rs): scope stack,   *)
(* type checking of statements and expressions, emission of the final IR,  *)
(* and the execute driver.                                                 *)
(*                                                                         *)
(* Representation.  A checking Type is a sequence of strings: <<"Num">>,   *)
(* <<"Array","Num">> for Array(Num), <<"Array","Any">> for Array(Any).  A  *)
(* parsing Type has the same shape, its last element being the identifier  *)
(* written in the source.  An Option is a sequence of length 0 or 1.       *)
(***************************************************************************)
EXTENDS Integers, Sequences, FiniteSets, TLC

VARIABLES scopes, final_ir, var_id_counter, log, stmts, pc, result, last, program, taken, nops

vars == <<scopes, final_ir, var_id_counter, log, stmts, pc, result, last, program, taken, nops>>

(* ------------------------------ bounds --------------------------------- *)

MaxScopeOps == 5
MaxFnOps == 3
MaxIrOps == 3
MaxStream == 3

(* ------------------------------ types ---------------------------------- *)

TNum == <<"Num">>
TBool == <<"Bool">>
TChar == <<"Char">>
TAny == <<"Any">>
TArray(t) == <<"Array">> \o t

RECURSIVE TypeEq(_, _)
(* PartialEq of checking::Type: structural, Any equal to every type. *)
TypeEq(a, b) ==
    IF Head(a) = "Any" \/ Head(b) = "Any" THEN TRUE
    ELSE IF Head(a) = "Array" /\ Head(b) = "Array" THEN TypeEq(Tail(a), Tail(b))
    ELSE Head(a) = Head(b)

(* ----------------------------- failures -------------------------------- *)

Failure(kind, identifier, types, expected, encountered) ==
    [kind |-> kind, identifier |-> identifier, types |-> types,
     expected |-> expected, encountered |-> encountered]

NoFailure == Failure("", "", <<>>, <<>>, <<>>)
NonexistentPrimitiveType(name) == Failure("NonexistentPrimitiveType", name, <<>>, <<>>, <<>>)
VariableNotInScope(name) == Failure("VariableNotInScope", name, <<>>, <<>>, <<>>)
FunctionNotInScope(name, ps) == Failure("FunctionNotInScope", name, ps, <<>>, <<>>)
VoidFunctionInExpr(name, ps) == Failure("VoidFunctionInExpr", name, ps, <<>>, <<>>)
RedefinedExistingFunction(name, ps) == Failure("RedefinedExistingFunction", name, ps, <<>>, <<>>)
FunctionDoesNotReturn(name, ps, t) == Failure("FunctionDoesNotReturn", name, ps, t, <<>>)
VoidFunctionReturnsValue(name, ps, t) == Failure("VoidFunctionReturnsValue", name, ps, <<>>, t)
UnexpectedType(expected, encountered) == Failure("UnexpectedType", "", <<>>, expected, encountered)
RedeclaredToDifferentType(name, expected, encountered) ==
    Failure("RedeclaredToDifferentType", name, <<>>, expected, encountered)

RECURSIVE from_parsing_type(_)
(* Type::from_parsing_type: Num, Bool and Char are the primitive names. *)
from_parsing_type(pt) ==
    IF Head(pt) = "Array" /\ Len(pt) > 1
    THEN LET inner == from_parsing_type(Tail(pt))
         IN IF inner.ok THEN [ok |-> TRUE, ty |-> TArray(inner.ty), err |-> NoFailure]
            ELSE inner
    ELSE IF Head(pt) \in {"Num", "Bool", "Char"}
         THEN [ok |-> TRUE, ty |-> <<Head(pt)>>, err |-> NoFailure]
         ELSE [ok |-> FALSE, ty |-> <<>>, err |-> NonexistentPrimitiveType(Head(pt))]

(* --------------------------- instructions ------------------------------ *)

Instr(op, kind, arg) == [op |-> op, kind |-> kind, arg |-> arg]
Allocate(id) == Instr("Allocate", "", id)
Deallocate(id) == Instr("Deallocate", "", id)
Store(id) == Instr("Store", "", id)
PushVariable(id) == Instr("Push", "Variable", id)
PushConstant(kind, v) == Instr("Push", kind, v)
Opcode(op) == Instr(op, "", 0)
ReturnValue == Opcode("ReturnValue")
ReturnVoid == Opcode("ReturnVoid")

(* ------------------------- abstract syntax ----------------------------- *)

Expr(kind, identifier, value, args) ==
    [kind |-> kind, identifier |-> identifier, value |-> value, args |-> args]
NumberLiteral(v) == Expr("NumberLiteral", "", v, <<>>)
BooleanLiteral(v) == Expr("BooleanLiteral", "", v, <<>>)
CharLiteral(v) == Expr("CharLiteral", "", v, <<>>)
StringLiteral == Expr("StringLiteral", "", 0, <<>>)
Variable(name) == Expr("Variable", name, 0, <<>>)
FunctionCall(name, args) == Expr("FunctionCall", name, 0, args)
Binary(kind, l, r) == Expr(kind, "", 0, <<l, r>>)
Unary(kind, e) == Expr(kind, "", 0, <<e>>)
ArrayLit(exprs) == Expr("Array", "", 0, exprs)
NoExpr == Expr("", "", 0, <<>>)

Stmt(kind, identifier, var_type, value, block, parameters, return_type) ==
    [kind |-> kind, identifier |-> identifier, var_type |-> var_type, value |-> value,
     block |-> block, parameters |-> parameters, return_type |-> return_type]
Return(value) == Stmt("Return", "", <<>>, value, <<>>, <<>>, <<>>)
If(condition, block) == Stmt("If", "", <<>>, <<condition>>, block, <<>>, <<>>)
While(condition, block) == Stmt("While", "", <<>>, <<condition>>, block, <<>>, <<>>)
VariableDeclaration(var_type, identifier, value) ==
    Stmt("VariableDeclaration", identifier, var_type, value, <<>>, <<>>, <<>>)
VariableAssignment(identifier, assign_to) ==
    Stmt("VariableAssignment", identifier, <<>>, <<assign_to>>, <<>>, <<>>, <<>>)
FunctionDefinition(identifier, parameters, return_type, body) ==
    Stmt("FunctionDefinition", identifier, <<>>, <<>>, body, parameters, return_type)
Parameter(identifier, param_type) == [identifier |-> identifier, param_type |-> param_type]
NoStmt == Stmt("", "", <<>>, <<>>, <<>>, <<>>, <<>>)

(* ------------------------------ scopes --------------------------------- *)

VariableDef(var_type, identifier, id) ==
    [var_type |-> var_type, identifier |-> identifier, id |-> id]
FunctionDef(identifier, parameter_types, return_type) ==
    [identifier |-> identifier, parameter_types |-> parameter_types, return_type |-> return_type]
Scope(variable_defs, function_defs) ==
    [variable_defs |-> variable_defs, function_defs |-> function_defs]

(* The Checker value; log is a history of the operations performed on it. *)
Checker(sc, ir, ctr, lg) ==
    [scopes |-> sc, final_ir |-> ir, var_id_counter |-> ctr, log |-> lg]

Event(ev, identifier, types, id) ==
    [ev |-> ev, identifier |-> identifier, types |-> types, id |-> id]

(* Scope::find_variable_def: the first definition of the scope with the identifier. *)
find_variable_def(scope, ident) ==
    LET hits == {i \in 1..Len(scope.variable_defs) : scope.variable_defs[i].identifier = ident}
    IN IF hits = {} THEN <<>>
       ELSE <<scope.variable_defs[CHOOSE i \in hits : \A j \in hits : i <= j]>>

(* Scope::find_function_def: exact match of identifier and parameter types. *)
find_function_def(scope, ident, params) ==
    LET hits == {i \in 1..Len(scope.function_defs) :
                    /\ scope.function_defs[i].identifier = ident
                    /\ scope.function_defs[i].parameter_types = params}
    IN IF hits = {} THEN <<>>
       ELSE <<scope.function_defs[CHOOSE i \in hits : \A j \in hits : i <= j]>>

begin_new_scope(c) ==
    [c EXCEPT !.scopes = Append(@, Scope(<<>>, <<>>)),
              !.log = Append(@, Event("begin_new_scope", "", <<>>, Len(c.scopes) + 1))]

(* Mutant of end_scope: the variables are deallocated last-introduced first. *)
end_scope_reversed(c) ==
    IF c.scopes = <<>> THEN c
    ELSE LET prev_scope == c.scopes[Len(c.scopes)]
             n == Len(prev_scope.variable_defs)
         IN [c EXCEPT !.scopes = SubSeq(@, 1, Len(@) - 1),
                      !.final_ir = @ \o [i \in 1..n |->
                                            Deallocate(prev_scope.variable_defs[n + 1 - i].id)],
                      !.log = Append(@, Event("end_scope", "", <<>>, Len(c.scopes)))]

end_scope(c) ==
    IF c.scopes = <<>> THEN c
    ELSE LET prev_scope == c.scopes[Len(c.scopes)]
         IN [c EXCEPT !.scopes = SubSeq(@, 1, Len(@) - 1),
                      !.final_ir = @ \o [i \in 1..Len(prev_scope.variable_defs) |->
                                            Deallocate(prev_scope.variable_defs[i].id)],
                      !.log = Append(@, Event("end_scope", "", <<>>, Len(c.scopes)))]

get_inner_scope(c) == c.scopes[Len(c.scopes)]

RECURSIVE variable_lookup_from(_, _, _)
variable_lookup_from(c, ident, i) ==
    IF i = 0 THEN [ok |-> FALSE, def |-> <<>>, err |-> VariableNotInScope(ident)]
    ELSE LET found == find_variable_def(c.scopes[i], ident)
         IN IF found # <<>> THEN [ok |-> TRUE, def |-> found, err |-> NoFailure]
            ELSE variable_lookup_from(c, ident, i - 1)

RECURSIVE variable_lookup_up(_, _, _)
variable_lookup_up(c, ident, i) ==
    IF i > Len(c.scopes) THEN [ok |-> FALSE, def |-> <<>>, err |-> VariableNotInScope(ident)]
    ELSE LET found == find_variable_def(c.scopes[i], ident)
         IN IF found # <<>> THEN [ok |-> TRUE, def |-> found, err |-> NoFailure]
            ELSE variable_lookup_up(c, ident, i + 1)

(* Mutant of variable_lookup: the scopes are searched outermost first. *)
variable_lookup_outermost_first(c, ident) == variable_lookup_up(c, ident, 1)

(* Innermost scope first: scopes.iter().rev(). *)
variable_lookup(c, ident) == variable_lookup_from(c, ident, Len(c.scopes))

(* Mutant of introduce_variable_to_inner_scope: the counter is not incremented. *)
introduce_variable_without_increment(c, ident, var_type) ==
    LET id == c.var_id_counter
    IN [c |-> [c EXCEPT !.scopes[Len(c.scopes)].variable_defs =
                            Append(@, VariableDef(var_type, ident, id)),
                        !.log = Append(@, Event("introduce_variable", ident, <<var_type>>, id))],
        id |-> id]

introduce_variable_to_inner_scope(c, ident, var_type) ==
    LET id == c.var_id_counter
    IN [c |-> [c EXCEPT !.scopes[Len(c.scopes)].variable_defs =
                            Append(@, VariableDef(var_type, ident, id)),
                        !.var_id_counter = @ + 1,
                        !.log = Append(@, Event("introduce_variable", ident, <<var_type>>, id))],
        id |-> id]

RECURSIVE function_lookup_from(_, _, _, _)
function_lookup_from(c, ident, params, i) ==
    IF i = 0 THEN [ok |-> FALSE, def |-> <<>>, err |-> FunctionNotInScope(ident, params)]
    ELSE LET found == find_function_def(c.scopes[i], ident, params)
         IN IF found # <<>> THEN [ok |-> TRUE, def |-> found, err |-> NoFailure]
            ELSE function_lookup_from(c, ident, params, i - 1)

(* Mutant of function_lookup: any function of that name is taken, whatever
   its parameter types. *)
function_lookup_by_name(c, ident, params) ==
    LET named == {d \in UNION {{c.scopes[i].function_defs[k] :
                                    k \in 1..Len(c.scopes[i].function_defs)} :
                               i \in 1..Len(c.scopes)} : d.identifier = ident}
    IN IF named = {} THEN [ok |-> FALSE, def |-> <<>>, err |-> FunctionNotInScope(ident, params)]
       ELSE [ok |-> TRUE, def |-> <<CHOOSE d \in named : TRUE>>, err |-> NoFailure]

function_lookup(c, ident, params) == function_lookup_from(c, ident, params, Len(c.scopes))

introduce_function(c, ident, params, return_type) ==
    [c EXCEPT !.scopes[Len(c.scopes)].function_defs =
                  Append(@, FunctionDef(ident, params, return_type)),
              !.log = Append(@, Event("introduce_function", ident, params, 0))]

(* ------------------------ expression checking -------------------------- *)
(* A call returns the Checker after the call together with its Result.  The  *)
(* operators named *_then take the result of the preceding step of the same  *)
(* function and continue from it, as the `?` operator does.                  *)

Res(c, ok, val, err) == [c |-> c, ok |-> ok, val |-> val, err |-> err, ptypes |-> <<>>]
Emit(c, instruction) == [c EXCEPT !.final_ir = Append(@, instruction)]

ArithmeticKinds == {"Add", "Subtract", "Multiply", "Divide", "GreaterThan", "LessThan"}
ArithmeticResult(kind) == IF kind \in {"GreaterThan", "LessThan"} THEN TBool ELSE TNum

RECURSIVE check_expr(_, _)
RECURSIVE check_call_args(_, _, _, _)
RECURSIVE check_array_elems(_, _, _, _)
RECURSIVE check_stmt(_, _)
RECURSIVE check_block(_, _, _)
RECURSIVE check_block_params(_, _, _, _)
RECURSIVE check_block_stmts(_, _, _, _)

(* Mutant of expect_type_then: expected and encountered are exchanged. *)
expect_type_then_exchanged(r, expected) ==
    IF ~r.ok THEN r
    ELSE IF TypeEq(r.val[1], expected) THEN Res(r.c, TRUE, <<>>, NoFailure)
    ELSE Res(r.c, FALSE, <<>>, UnexpectedType(r.val[1], expected))

(* if expr_type == expected { Ok(()) } else { Err(UnexpectedType) } *)
expect_type_then(r, expected) ==
    IF ~r.ok THEN r
    ELSE IF TypeEq(r.val[1], expected) THEN Res(r.c, TRUE, <<>>, NoFailure)
    ELSE Res(r.c, FALSE, <<>>, UnexpectedType(expected, r.val[1]))

expect_expr_type(c, expr, expected) == expect_type_then(check_expr(c, expr), expected)

verify_push_then(r, instruction) ==
    IF ~r.ok THEN r ELSE Res(Emit(r.c, instruction), TRUE, <<>>, NoFailure)

verify_right_then(l, right, instruction) ==
    IF ~l.ok THEN l
    ELSE verify_push_then(expect_expr_type(l.c, right, TNum), instruction)

(* Mutant of verify_arithmetic_expr: the right operand is checked first. *)
verify_arithmetic_expr_right_first(c, left, right, instruction) ==
    verify_right_then(expect_expr_type(c, right, TNum), left, instruction)

verify_arithmetic_expr(c, left, right, instruction) ==
    verify_right_then(expect_expr_type(c, left, TNum), right, instruction)

call_arg_then(r, args, i, arg_types) ==
    IF ~r.ok THEN r
    ELSE check_call_args(r.c, args, i + 1, Append(arg_types, r.val[1]))

(* for arg in args { arg_types.push(self.check_expr(arg)?) } *)
check_call_args(c, args, i, arg_types) ==
    IF i > Len(args) THEN Res(c, TRUE, arg_types, NoFailure)
    ELSE call_arg_then(check_expr(c, args[i]), args, i, arg_types)

array_elem_then(r, exprs, i, contained_type) ==
    IF ~r.ok THEN r
    ELSE IF ~TypeEq(contained_type, r.val[1])
         THEN Res(r.c, FALSE, <<>>, UnexpectedType(contained_type, r.val[1]))
         ELSE check_array_elems(r.c, exprs, i + 1, contained_type)

(* for expr in exprs { ... contained_type != expr_type ... } *)
check_array_elems(c, exprs, i, contained_type) ==
    IF i > Len(exprs) THEN Res(c, TRUE, <<TArray(contained_type)>>, NoFailure)
    ELSE array_elem_then(check_expr(c, exprs[i]), exprs, i, contained_type)

variable_push_then(c, def) ==
    IF ~def.ok THEN Res(c, FALSE, <<>>, def.err)
    ELSE Res(Emit(c, PushVariable(def.def[1].id)), TRUE, <<def.def[1].var_type>>, NoFailure)

check_expr_variable(c, expr) == variable_push_then(c, variable_lookup(c, expr.identifier))

call_return_type_then(a, expr, definition) ==
    IF ~definition.ok THEN Res(a.c, FALSE, <<>>, definition.err)
    ELSE IF definition.def[1].return_type # <<>>
         THEN Res(a.c, TRUE, definition.def[1].return_type, NoFailure)
         ELSE Res(a.c, FALSE, <<>>, VoidFunctionInExpr(expr.identifier, a.val))

call_lookup_then(a, expr) ==
    IF ~a.ok THEN a
    ELSE call_return_type_then(a, expr, function_lookup(a.c, expr.identifier, a.val))

check_expr_function_call(c, expr) == call_lookup_then(check_call_args(c, expr.args, 1, <<>>), expr)

equal_compare_then(l, r) ==
    IF ~r.ok THEN r
    ELSE IF TypeEq(l.val[1], r.val[1])
         THEN Res(Emit(r.c, Opcode("Equals")), TRUE, <<TBool>>, NoFailure)
         ELSE Res(r.c, FALSE, <<>>, UnexpectedType(l.val[1], r.val[1]))

equal_right_then(l, expr) ==
    IF ~l.ok THEN l ELSE equal_compare_then(l, check_expr(l.c, expr.args[2]))

check_expr_equal(c, expr) == equal_right_then(check_expr(c, expr.args[1]), expr)

array_first_then(first, expr) ==
    IF ~first.ok THEN first ELSE check_array_elems(first.c, expr.args, 1, first.val[1])

check_expr_array(c, expr) ==
    IF expr.args = <<>> THEN check_array_elems(c, expr.args, 1, TAny)
    ELSE array_first_then(check_expr(c, expr.args[1]), expr)

(* Ok(ty) after a step that yields Ok(()). *)
typed_then(r, ty) == IF ~r.ok THEN r ELSE Res(r.c, TRUE, <<ty>>, NoFailure)

check_expr(c, expr) ==
    CASE expr.kind = "Variable" -> check_expr_variable(c, expr)
      [] expr.kind = "FunctionCall" -> check_expr_function_call(c, expr)
      [] expr.kind \in ArithmeticKinds ->
            typed_then(verify_arithmetic_expr(c, expr.args[1], expr.args[2], Opcode(expr.kind)),
                       ArithmeticResult(expr.kind))
      [] expr.kind = "Equal" -> check_expr_equal(c, expr)
      [] expr.kind = "BooleanNot" -> typed_then(expect_expr_type(c, expr.args[1], TBool), TBool)
      [] expr.kind = "UnaryMinus" -> typed_then(expect_expr_type(c, expr.args[1], TNum), TNum)
      [] expr.kind = "Array" -> check_expr_array(c, expr)
      [] expr.kind = "StringLiteral" -> Res(c, TRUE, <<TArray(TChar)>>, NoFailure)
      [] expr.kind = "NumberLiteral" ->
            Res(Emit(c, PushConstant("Num", expr.value)), TRUE, <<TNum>>, NoFailure)
      [] expr.kind = "BooleanLiteral" ->
            Res(Emit(c, PushConstant("Bool", expr.value)), TRUE, <<TBool>>, NoFailure)
      [] expr.kind = "CharLiteral" ->
            Res(Emit(c, PushConstant("Char", expr.value)), TRUE, <<TChar>>, NoFailure)

(* ------------------------- statement checking -------------------------- *)

return_value_then(value) ==
    IF ~value.ok THEN value ELSE Res(Emit(value.c, ReturnValue), TRUE, value.val, NoFailure)

check_stmt_return(c, stmt) ==
    IF stmt.value # <<>> THEN return_value_then(check_expr(c, stmt.value[1]))
    ELSE Res(Emit(c, ReturnVoid), TRUE, <<>>, NoFailure)

if_while_ret_then(b) == IF ~b.ok THEN b ELSE Res(b.c, TRUE, b.val, NoFailure)

if_while_block_then(cond, stmt) ==
    IF ~cond.ok THEN cond ELSE if_while_ret_then(check_block(cond.c, stmt.block, <<>>))

check_stmt_if_while(c, stmt) ==
    if_while_block_then(expect_expr_type(c, stmt.value[1], TBool), stmt)

initial_value_store_then(v, var_id) ==
    IF ~v.ok THEN v ELSE Res(Emit(v.c, Store(var_id)), TRUE, <<>>, NoFailure)

(* The initial value of a declaration: expect_expr_type, then Store(var_id). *)
check_initial_value(c, stmt, checking_type, var_id) ==
    IF stmt.value = <<>> THEN Res(c, TRUE, <<>>, NoFailure)
    ELSE initial_value_store_then(expect_expr_type(c, stmt.value[1], checking_type), var_id)

(* Mutant of check_stmt_variable_declaration: the existing definition is
   searched in every scope of the stack, not only in the innermost. *)
check_stmt_variable_declaration_any_scope(c, stmt) ==
    LET checking_type == from_parsing_type(stmt.var_type)
    IN IF ~checking_type.ok THEN Res(c, FALSE, <<>>, checking_type.err)
       ELSE LET existing_def == variable_lookup(c, stmt.identifier).def
            IN IF existing_def # <<>>
               THEN IF ~TypeEq(checking_type.ty, existing_def[1].var_type)
                    THEN Res(c, FALSE, <<>>,
                             RedeclaredToDifferentType(stmt.identifier,
                                 existing_def[1].var_type, checking_type.ty))
                    ELSE check_initial_value(c, stmt, checking_type.ty, existing_def[1].id)
               ELSE LET v == introduce_variable_to_inner_scope(c, stmt.identifier, checking_type.ty)
                    IN check_initial_value(Emit(v.c, Allocate(v.id)), stmt, checking_type.ty, v.id)

(* Mutant of check_stmt_variable_declaration: a redeclaration with the same
   type introduces a new variable instead of reusing the existing id. *)
check_stmt_variable_declaration_no_reuse(c, stmt) ==
    LET checking_type == from_parsing_type(stmt.var_type)
    IN IF ~checking_type.ok THEN Res(c, FALSE, <<>>, checking_type.err)
       ELSE LET existing_def == find_variable_def(get_inner_scope(c), stmt.identifier)
            IN IF existing_def # <<>> /\ ~TypeEq(checking_type.ty, existing_def[1].var_type)
               THEN Res(c, FALSE, <<>>,
                        RedeclaredToDifferentType(stmt.identifier,
                            existing_def[1].var_type, checking_type.ty))
               ELSE LET v == introduce_variable_to_inner_scope(c, stmt.identifier, checking_type.ty)
                    IN check_initial_value(Emit(v.c, Allocate(v.id)), stmt, checking_type.ty, v.id)

check_stmt_variable_declaration(c, stmt) ==
    LET checking_type == from_parsing_type(stmt.var_type)
    IN IF ~checking_type.ok THEN Res(c, FALSE, <<>>, checking_type.err)
       ELSE LET existing_def == find_variable_def(get_inner_scope(c), stmt.identifier)
            IN IF existing_def # <<>>
               THEN IF ~TypeEq(checking_type.ty, existing_def[1].var_type)
                    THEN Res(c, FALSE, <<>>,
                             RedeclaredToDifferentType(stmt.identifier,
                                 existing_def[1].var_type, checking_type.ty))
                    ELSE check_initial_value(c, stmt, checking_type.ty, existing_def[1].id)
               ELSE LET v == introduce_variable_to_inner_scope(c, stmt.identifier, checking_type.ty)
                    IN check_initial_value(Emit(v.c, Allocate(v.id)), stmt, checking_type.ty, v.id)

assignment_store_then(assign_to, var_def) ==
    IF ~var_def.ok THEN Res(assign_to.c, FALSE, <<>>, var_def.err)
    ELSE IF ~TypeEq(var_def.def[1].var_type, assign_to.val[1])
         THEN Res(assign_to.c, FALSE, <<>>,
                  UnexpectedType(var_def.def[1].var_type, assign_to.val[1]))
         ELSE Res(Emit(assign_to.c, Store(var_def.def[1].id)), TRUE, <<>>, NoFailure)

assignment_lookup_then(assign_to, stmt) ==
    IF ~assign_to.ok THEN assign_to
    ELSE assignment_store_then(assign_to, variable_lookup(assign_to.c, stmt.identifier))

check_stmt_variable_assignment(c, stmt) ==
    assignment_lookup_then(check_expr(c, stmt.value[1]), stmt)

(* Mutant of check_function_return: the body's type is not compared with
   the declared return type. *)
check_function_return_uncompared(c, stmt, body_return_type, param_types) ==
    IF stmt.return_type # <<>>
    THEN LET expected_return_type == from_parsing_type(stmt.return_type[1])
         IN IF ~expected_return_type.ok THEN Res(c, FALSE, <<>>, expected_return_type.err)
            ELSE IF body_return_type # <<>>
                 THEN Res(introduce_function(c, stmt.identifier, param_types, body_return_type),
                          TRUE, <<>>, NoFailure)
                 ELSE Res(c, FALSE, <<>>,
                          FunctionDoesNotReturn(stmt.identifier, param_types, expected_return_type.ty))
    ELSE IF body_return_type # <<>>
         THEN Res(c, FALSE, <<>>,
                  VoidFunctionReturnsValue(stmt.identifier, param_types, body_return_type[1]))
         ELSE Res(introduce_function(c, stmt.identifier, param_types, <<>>), TRUE, <<>>, NoFailure)

(* Lines 146-184: the body's return type against the signature. *)
check_function_return(c, stmt, body_return_type, param_types) ==
    IF stmt.return_type # <<>>
    THEN LET expected_return_type == from_parsing_type(stmt.return_type[1])
         IN IF ~expected_return_type.ok THEN Res(c, FALSE, <<>>, expected_return_type.err)
            ELSE IF body_return_type # <<>>
                 THEN IF TypeEq(body_return_type[1], expected_return_type.ty)
                      THEN Res(introduce_function(c, stmt.identifier, param_types, body_return_type),
                               TRUE, <<>>, NoFailure)
                      ELSE Res(c, FALSE, <<>>,
                               UnexpectedType(expected_return_type.ty, body_return_type[1]))
                 ELSE Res(c, FALSE, <<>>,
                          FunctionDoesNotReturn(stmt.identifier, param_types, expected_return_type.ty))
    ELSE IF body_return_type # <<>>
         THEN Res(c, FALSE, <<>>,
                  VoidFunctionReturnsValue(stmt.identifier, param_types, body_return_type[1]))
         ELSE Res(introduce_function(c, stmt.identifier, param_types, <<>>), TRUE, <<>>, NoFailure)

(* Lines 140-185: what follows check_block(body, parameters)?. *)
function_signature_then(b, stmt) ==
    IF ~b.ok THEN b
    ELSE IF function_lookup(b.c, stmt.identifier, b.ptypes).ok
         THEN Res(b.c, FALSE, <<>>, RedefinedExistingFunction(stmt.identifier, b.ptypes))
         ELSE check_function_return(b.c, stmt, b.val, b.ptypes)

check_stmt_function_definition(c, stmt) ==
    function_signature_then(check_block(c, stmt.block, stmt.parameters), stmt)

check_stmt(c, stmt) ==
    CASE stmt.kind = "Return" -> check_stmt_return(c, stmt)
      [] stmt.kind \in {"If", "While"} -> check_stmt_if_while(c, stmt)
      [] stmt.kind = "VariableDeclaration" -> check_stmt_variable_declaration(c, stmt)
      [] stmt.kind = "VariableAssignment" -> check_stmt_variable_assignment(c, stmt)
      [] stmt.kind = "FunctionDefinition" -> check_stmt_function_definition(c, stmt)

(* for param in params { from_parsing_type?; introduce_variable; push } *)
check_block_params(c, params, i, param_types) ==
    IF i > Len(params) THEN [Res(c, TRUE, <<>>, NoFailure) EXCEPT !.ptypes = param_types]
    ELSE LET converted_type == from_parsing_type(params[i].param_type)
         IN IF ~converted_type.ok THEN Res(c, FALSE, <<>>, converted_type.err)
            ELSE check_block_params(
                    introduce_variable_to_inner_scope(c, params[i].identifier, converted_type.ty).c,
                    params, i + 1, Append(param_types, converted_type.ty))

(* Mutant of block_stmt_then: expected and encountered are exchanged. *)
block_stmt_then_exchanged(r, block, i, ret_type) ==
    IF ~r.ok THEN r
    ELSE IF r.val = <<>> THEN check_block_stmts(r.c, block, i + 1, ret_type)
    ELSE IF ret_type = <<>> THEN check_block_stmts(r.c, block, i + 1, r.val)
    ELSE IF ~TypeEq(r.val[1], ret_type[1])
         THEN Res(r.c, FALSE, <<>>, UnexpectedType(r.val[1], ret_type[1]))
         ELSE check_block_stmts(r.c, block, i + 1, ret_type)

block_stmt_then(r, block, i, ret_type) ==
    IF ~r.ok THEN r
    ELSE IF r.val = <<>> THEN check_block_stmts(r.c, block, i + 1, ret_type)
    ELSE IF ret_type = <<>> THEN check_block_stmts(r.c, block, i + 1, r.val)
    ELSE IF ~TypeEq(r.val[1], ret_type[1])
         THEN Res(r.c, FALSE, <<>>, UnexpectedType(ret_type[1], r.val[1]))
         ELSE check_block_stmts(r.c, block, i + 1, ret_type)

(* for stmt in block { if let Some(new) = self.check_stmt(stmt)? { ... } } *)
check_block_stmts(c, block, i, ret_type) ==
    IF i > Len(block) THEN Res(c, TRUE, ret_type, NoFailure)
    ELSE block_stmt_then(check_stmt(c, block[i]), block, i, ret_type)

(* Mutant of block_end_then: the scope of the block is not ended. *)
block_end_then_unclosed(s, param_types) ==
    IF ~s.ok THEN s
    ELSE [Res(s.c, TRUE, s.val, NoFailure) EXCEPT !.ptypes = param_types]

block_end_then(s, param_types) ==
    IF ~s.ok THEN s
    ELSE [Res(end_scope(s.c), TRUE, s.val, NoFailure) EXCEPT !.ptypes = param_types]

block_stmts_then(p, block) ==
    IF ~p.ok THEN p ELSE block_end_then(check_block_stmts(p.c, block, 1, <<>>), p.ptypes)

check_block(c, block, params) ==
    block_stmts_then(check_block_params(begin_new_scope(c), params, 1, <<>>), block)

(* ------------------------------ state ---------------------------------- *)

(* The Checker held in the state variables. *)
Self == Checker(scopes, final_ir, var_id_counter, log)

SetSelf(c) ==
    /\ scopes' = c.scopes
    /\ final_ir' = c.final_ir
    /\ var_id_counter' = c.var_id_counter
    /\ log' = c.log

(* Record of the last call made on the Checker and of the Checker before it. *)
Call(op, stmt, expr, pre, ok, val, err) ==
    [op |-> op, stmt |-> stmt, expr |-> expr, pre |-> pre, ok |-> ok, val |-> val, err |-> err]
NoCall == Call("", NoStmt, NoExpr, Checker(<<>>, <<>>, 0, <<>>), TRUE, <<>>, NoFailure)

ExecResult(status, ir, err) == [status |-> status, ir |-> ir, err |-> err]
NoResult == ExecResult("", <<>>, NoFailure)

(* Checker::new *)
new == Checker(<<>>, <<>>, 0, <<>>)

(* tests::new_empty_checker *)
new_empty_checker == begin_new_scope(new)

(* ---------------- inputs: statements, expressions, programs ------------ *)

Names == {"x", "y"}
DeclTypes == {<<"Num">>, <<"Bool">>}
DeclValues == {<<>>, <<NumberLiteral(1)>>}
DeclStmts == {VariableDeclaration(t, n, v) : t \in DeclTypes, n \in Names, v \in DeclValues}

PNum == <<"Num">>
PChar == <<"Char">>
PArrayNum == <<"Array", "Num">>
POops == <<"Oops">>

RetNum == Return(<<NumberLiteral(1)>>)
RetBool == Return(<<BooleanLiteral(1)>>)
RetChar == Return(<<CharLiteral(1)>>)
RetEmptyArray == Return(<<ArrayLit(<<>>)>>)
RetNumArray == Return(<<ArrayLit(<<NumberLiteral(1)>>)>>)
IfTrue(block) == If(BooleanLiteral(1), block)

(* Function definitions in the manner of tests::check_stmts. *)
FnDefs ==
    { FunctionDefinition("f", <<>>, <<>>, <<>>),
      FunctionDefinition("f", <<>>, <<PNum>>, <<RetNum>>),
      FunctionDefinition("f", <<>>, <<>>, <<VariableAssignment("y", NumberLiteral(1))>>),
      FunctionDefinition("f", <<Parameter("n", PNum)>>, <<PNum>>, <<Return(<<Variable("n")>>)>>),
      FunctionDefinition("f", <<Parameter("c", PChar)>>, <<PNum>>, <<RetNum>>),
      FunctionDefinition("f", <<Parameter("n", PNum)>>, <<PNum>>,
                         <<Return(<<FunctionCall("f", <<Variable("n")>>)>>)>>),
      FunctionDefinition("g", <<>>, <<PNum>>, <<>>),
      FunctionDefinition("g", <<>>, <<PNum>>, <<Return(<<>>)>>),
      FunctionDefinition("g", <<>>, <<PNum>>, <<RetBool>>),
      FunctionDefinition("g", <<>>, <<>>, <<RetNum>>),
      FunctionDefinition("g", <<>>, <<PArrayNum>>, <<RetEmptyArray>>),
      FunctionDefinition("g", <<>>, <<PNum>>, <<IfTrue(<<RetChar>>), RetNum>>),
      FunctionDefinition("g", <<>>, <<PNum>>, <<IfTrue(<<RetNum>>), RetNum>>),
      FunctionDefinition("g", <<>>, <<PArrayNum>>, <<RetEmptyArray, RetNumArray>>),
      FunctionDefinition("g", <<Parameter("n", POops)>>, <<>>, <<>>),
      FunctionDefinition("g", <<>>, <<POops>>, <<RetNum>>) }

(* If and While statements whose blocks return. *)
BlockStmts ==
    { IfTrue(<<RetChar>>),
      IfTrue(<<RetNum, RetBool>>),
      While(BooleanLiteral(1), <<IfTrue(<<RetNum>>), RetBool>>),
      IfTrue(<<RetNumArray, RetEmptyArray, RetNumArray>>),
      IfTrue(<<VariableDeclaration(PNum, "x", <<>>), Return(<<>>), IfTrue(<<RetNum>>)>>),
      While(StringLiteral, <<>>) }

FnStmts == FnDefs \cup BlockStmts

CallExprs ==
    { FunctionCall("f", <<>>),
      FunctionCall("f", <<NumberLiteral(1)>>),
      FunctionCall("f", <<CharLiteral(1)>>),
      FunctionCall("f", <<BooleanLiteral(1)>>),
      FunctionCall("g", <<>>) }

(* ------------------- unit-level calls (as in mod tests) ---------------- *)

InitUnit ==
    /\ scopes = new_empty_checker.scopes
    /\ final_ir = new_empty_checker.final_ir
    /\ var_id_counter = new_empty_checker.var_id_counter
    /\ log = new_empty_checker.log
    /\ stmts = <<>>
    /\ program = <<>>
    /\ taken = <<>>
    /\ pc = "unit"
    /\ result = NoResult
    /\ last = NoCall
    /\ nops = 0

BeginNewScope(max) ==
    /\ pc = "unit" /\ nops < max
    /\ SetSelf(begin_new_scope(Self))
    /\ last' = Call("begin_new_scope", NoStmt, NoExpr, Self, TRUE, <<>>, NoFailure)
    /\ nops' = nops + 1
    /\ UNCHANGED <<stmts, program, taken, pc, result>>

EndScope(max) ==
    /\ pc = "unit" /\ nops < max
    /\ SetSelf(end_scope(Self))
    /\ last' = Call("end_scope", NoStmt, NoExpr, Self, TRUE, <<>>, NoFailure)
    /\ nops' = nops + 1
    /\ UNCHANGED <<stmts, program, taken, pc, result>>

(* The checker after a call, and the record of the call. *)
Returned(r, op, stmt, expr) ==
    /\ SetSelf(r.c)
    /\ last' = Call(op, stmt, expr, Self, r.ok, r.val, r.err)

(* get_inner_scope unwraps the innermost scope: calls are made with one open. *)
CheckStmtCall(stmt, max) ==
    /\ pc = "unit" /\ nops < max
    /\ scopes # <<>>
    /\ Returned(check_stmt(Self, stmt), "check_stmt", stmt, NoExpr)
    /\ nops' = nops + 1
    /\ UNCHANGED <<stmts, program, taken, pc, result>>

CheckExprCall(expr, max) ==
    /\ pc = "unit" /\ nops < max
    /\ scopes # <<>>
    /\ Returned(check_expr(Self, expr), "check_expr", NoStmt, expr)
    /\ nops' = nops + 1
    /\ UNCHANGED <<stmts, program, taken, pc, result>>

NextScope ==
    \/ BeginNewScope(MaxScopeOps)
    \/ EndScope(MaxScopeOps)
    \/ \E stmt \in DeclStmts : CheckStmtCall(stmt, MaxScopeOps)

SpecScope == InitUnit /\ [][NextScope]_vars

NextFn ==
    \/ \E stmt \in FnStmts : CheckStmtCall(stmt, MaxFnOps)
    \/ \E expr \in CallExprs : CheckExprCall(expr, MaxFnOps)

SpecFn == InitUnit /\ [][NextFn]_vars

(* ------- inputs for IR emission: arithmetic, arrays, blocks, nesting --- *)

PBool == <<"Bool">>
PArrayArrayNum == <<"Array", "Array", "Num">>

Num1 == NumberLiteral(1)
Num2 == NumberLiteral(2)
EmptyArray == ArrayLit(<<>>)
(* [[], [1]] as in tests::empty_array_literals *)
EmptyAndNumArray == ArrayLit(<<EmptyArray, ArrayLit(<<Num1>>)>>)
(* [1, true] *)
NumThenBool == ArrayLit(<<Num1, BooleanLiteral(1)>>)

(* Expressions in the manner of tests::check_exprs. *)
IrExprs ==
    { Binary("Add", Num1, Num2),
      Binary("Subtract", Variable("x"), Num1),
      Binary("Multiply", Binary("Add", Num1, Num2), Variable("x")),
      Binary("Divide", BooleanLiteral(1), CharLiteral(1)),
      Binary("GreaterThan", Num1, BooleanLiteral(1)),
      Binary("LessThan", Num1, Num2),
      NumThenBool,
      EmptyAndNumArray,
      ArrayLit(<<Num1, Num2>>),
      FunctionCall("add", <<Num1, Num2>>) }

(* function add(a: Num, b: Num): Num { return a + b } *)
AddFn ==
    FunctionDefinition("add", <<Parameter("a", PNum), Parameter("b", PNum)>>, <<PNum>>,
                       <<Return(<<Binary("Add", Variable("a"), Variable("b"))>>)>>)

IrStmts ==
    { VariableDeclaration(PNum, "x", <<Num1>>),
      VariableDeclaration(PBool, "x", <<>>),
      VariableDeclaration(PArrayNum, "a", <<EmptyArray>>),
      VariableDeclaration(PArrayArrayNum, "a", <<EmptyAndNumArray>>),
      VariableDeclaration(PNum, "a", <<EmptyArray>>),
      VariableDeclaration(PArrayNum, "a", <<NumThenBool>>),
      AddFn,
      FunctionDefinition("f", <<>>, <<>>, <<FunctionDefinition("g", <<>>, <<>>, <<>>)>>),
      FunctionDefinition("f", <<Parameter("n", PNum)>>, <<>>,
                         <<IfTrue(<<FunctionDefinition("h", <<>>, <<PNum>>, <<RetNum>>)>>)>>),
      FunctionDefinition("g", <<Parameter("n", POops)>>, <<>>, <<>>),
      IfTrue(<<VariableDeclaration(PNum, "x", <<Num1>>), VariableDeclaration(PBool, "y", <<>>)>>),
      IfTrue(<<VariableDeclaration(PNum, "y", <<>>), Return(<<Variable("y")>>)>>),
      IfTrue(<<IfTrue(<<VariableDeclaration(PNum, "y", <<Num2>>)>>),
               VariableDeclaration(PNum, "y", <<>>)>>),
      IfTrue(<<VariableAssignment("z", Num1)>>),
      IfTrue(<<RetNum, RetBool>>),
      While(Binary("LessThan", Variable("x"), Num2),
            <<VariableAssignment("x", Binary("Add", Variable("x"), Num1))>>),
      While(StringLiteral, <<>>),
      FunctionDefinition("k", <<>>, <<PNum>>, <<IfTrue(<<Return(<<>>)>>), RetNum>>),
      FunctionDefinition("p", <<Parameter("n", PNum), Parameter("n", PBool)>>, <<>>,
                         <<VariableDeclaration(PNum, "n", <<>>)>>) }

NextIr ==
    \/ \E stmt \in IrStmts : CheckStmtCall(stmt, MaxIrOps)
    \/ \E expr \in IrExprs : CheckExprCall(expr, MaxIrOps)

SpecIr == InitUnit /\ [][NextIr]_vars

(* ------------------------------ execute -------------------------------- *)

(* Top-level statements of the streams given to checking::input. *)
TopStmts ==
    { VariableDeclaration(PNum, "x", <<NumberLiteral(1)>>),
      VariableDeclaration(<<"Bool">>, "x", <<>>),
      VariableAssignment("x", NumberLiteral(2)),
      FunctionDefinition("f", <<>>, <<>>, <<>>),
      IfTrue(<<FunctionDefinition("f", <<>>, <<>>, <<>>)>>),
      FunctionDefinition("g", <<Parameter("n", PNum)>>, <<PNum>>, <<Return(<<Variable("n")>>)>>),
      VariableDeclaration(PNum, "y", <<FunctionCall("g", <<NumberLiteral(1)>>)>>),
      While(StringLiteral, <<>>),
      IfTrue(<<VariableDeclaration(PNum, "x", <<>>), VariableAssignment("z", NumberLiteral(1))>>),
      Return(<<NumberLiteral(1)>>) }

Programs == UNION {[1..n -> TopStmts] : n \in 0..MaxStream}

(* checking::input: Checker::new(stmts), execute not yet begun. *)
Init ==
    /\ program \in Programs
    /\ stmts = program
    /\ scopes = new.scopes
    /\ final_ir = new.final_ir
    /\ var_id_counter = new.var_id_counter
    /\ log = new.log
    /\ taken = <<>>
    /\ pc = "new"
    /\ result = NoResult
    /\ last = NoCall
    /\ nops = 0

(* self.begin_new_scope() *)
ExecuteBegin ==
    /\ pc = "new"
    /\ SetSelf(begin_new_scope(Self))
    /\ pc' = "loop"
    /\ last' = Call("begin_new_scope", NoStmt, NoExpr, Self, TRUE, <<>>, NoFailure)
    /\ UNCHANGED <<stmts, program, taken, result, nops>>

(* Mutant of execute_check: the error of check_stmt is dropped and the loop goes on. *)
execute_check_ignoring(c, stmt) == [check_stmt(c, stmt) EXCEPT !.ok = TRUE]

(* self.check_stmt(&stmt)? in the loop of execute *)
execute_check(c, stmt) == check_stmt(c, stmt)

(* `?`: an Err ends execute with that error, and the checker's IR with it. *)
ExecuteReturned(r) ==
    /\ Returned(r, "check_stmt", Head(stmts), NoExpr)
    /\ IF r.ok THEN pc' = "loop" /\ result' = result
       ELSE pc' = "done" /\ result' = ExecResult("Err", <<>>, r.err)

(* while let Some(stmt) = self.stmts.next() { self.check_stmt(&stmt)?; } *)
ExecuteStep ==
    /\ pc = "loop"
    /\ stmts # <<>>
    /\ stmts' = Tail(stmts)
    /\ taken' = Append(taken, Head(stmts))
    /\ ExecuteReturned(execute_check(Self, Head(stmts)))
    /\ UNCHANGED <<program, nops>>

(* self.end_scope(); assert!(self.scopes.is_empty()); Ok(self.final_ir) *)
ExecuteEnd ==
    /\ pc = "loop"
    /\ stmts = <<>>
    /\ SetSelf(end_scope(Self))
    /\ pc' = "done"
    /\ result' = IF end_scope(Self).scopes = <<>>
                 THEN ExecResult("Ok", end_scope(Self).final_ir, NoFailure)
                 ELSE ExecResult("Panic", <<>>, NoFailure)
    /\ last' = Call("end_scope", NoStmt, NoExpr, Self, TRUE, <<>>, NoFailure)
    /\ UNCHANGED <<stmts, program, taken, nops>>

Next == ExecuteBegin \/ ExecuteStep \/ ExecuteEnd

Spec == Init /\ [][Next]_vars

(* ------------------------- claims C1 .. C3 ----------------------------- *)

LookupNames == Names \cup {"z"}

Max(S) == CHOOSE m \in S : \A j \in S : j <= m

(* Indices of the scopes of the stack that hold a definition of name. *)
ScopesHolding(sc, name) ==
    {i \in 1..Len(sc) :
        \E k \in 1..Len(sc[i].variable_defs) : sc[i].variable_defs[k].identifier = name}

(* Names introduced at some time, according to the history. *)
EverIntroduced == {log[i].identifier : i \in {j \in 1..Len(log) : log[j].ev = "introduce_variable"}}

(* C1: variable_lookup(name) yields the VariableDef of the innermost scope on
   the stack that holds name, and fails with VariableNotInScope(name) exactly
   when no scope on the stack holds name. *)
C1_LookupInnermost ==
    \A name \in LookupNames :
        LET r == variable_lookup(Self, name)
            holding == ScopesHolding(scopes, name)
        IN IF holding = {}
           THEN ~r.ok /\ r.err = VariableNotInScope(name)
           ELSE /\ r.ok
                /\ r.def[1].identifier = name
                /\ \E k \in 1..Len(scopes[Max(holding)].variable_defs) :
                      scopes[Max(holding)].variable_defs[k] = r.def[1]

(* An inner scope that shadowed x with another type was ended: x resolves to
   the outer definition again, and a name declared only in the ended scope
   no longer resolves. *)
C1_Witness ==
    /\ last.op = "end_scope"
    /\ Len(last.pre.scopes) >= 2
    /\ LET inner == variable_lookup(last.pre, "x")
           outer == variable_lookup(Self, "x")
       IN /\ inner.ok /\ outer.ok
          /\ inner.def[1].var_type # outer.def[1].var_type
          /\ inner.def[1].id # outer.def[1].id
    /\ "y" \in EverIntroduced
    /\ ~variable_lookup(Self, "y").ok

IsDeclaration == last.op = "check_stmt" /\ last.stmt.kind = "VariableDeclaration"

(* Definitions of the declared identifier in the innermost scope before the call. *)
InnerSame ==
    LET inner == last.pre.scopes[Len(last.pre.scopes)].variable_defs
    IN {inner[k] : k \in {j \in 1..Len(inner) : inner[j].identifier = last.stmt.identifier}}

DeclaredType == from_parsing_type(last.stmt.var_type)

(* C2: a declaration of a name the innermost scope holds with another type
   fails with RedeclaredToDifferentType and changes nothing; the error
   never comes from a definition held only by an outer scope. *)
C2_RedeclaredToDifferentType ==
    IsDeclaration =>
        /\ (DeclaredType.ok /\ \E d \in InnerSame : d.var_type # DeclaredType.ty) =>
              /\ ~last.ok
              /\ \E d \in InnerSame :
                    last.err = RedeclaredToDifferentType(last.stmt.identifier,
                                                         d.var_type, DeclaredType.ty)
              /\ Self = last.pre
        /\ last.err.kind = "RedeclaredToDifferentType" => InnerSame # {}

(* A conflicting redeclaration failed in a nested scope, and a declaration
   of a name held with another type by the outer scope only succeeded. *)
C2_Witness ==
    /\ IsDeclaration
    /\ last.err.kind = "RedeclaredToDifferentType"
    /\ Len(scopes) >= 2
    /\ \E d \in InnerSame : \E i \in 1..(Len(scopes) - 1) :
          \E k \in 1..Len(scopes[i].variable_defs) :
             /\ scopes[i].variable_defs[k].identifier = d.identifier
             /\ scopes[i].variable_defs[k].var_type # d.var_type

(* Instructions appended by the last call. *)
Appended == SubSeq(final_ir, Len(last.pre.final_ir) + 1, Len(final_ir))

(* C3: a second declaration of a name with the same type in the same scope
   reuses the first id: the counter and the scopes are unchanged, no
   Allocate is emitted, and an initializer is stored with Store(first id). *)
C3_RedeclarationReusesId ==
    (IsDeclaration /\ DeclaredType.ok /\ \E d \in InnerSame : d.var_type = DeclaredType.ty) =>
        /\ var_id_counter = last.pre.var_id_counter
        /\ scopes = last.pre.scopes
        /\ SubSeq(final_ir, 1, Len(last.pre.final_ir)) = last.pre.final_ir
        /\ \A i \in 1..Len(Appended) : Appended[i].op # "Allocate"
        /\ last.stmt.value = <<>> => last.ok /\ Appended = <<>>
        /\ (last.stmt.value # <<>> /\ last.ok) =>
              /\ Appended # <<>>
              /\ \E d \in InnerSame : Appended[Len(Appended)] = Store(d.id)
              /\ Cardinality({i \in 1..Len(Appended) : Appended[i].op = "Store"}) = 1

(* x : Num was declared again with an initializer in the same scope. *)
C3_Witness ==
    /\ IsDeclaration /\ last.ok
    /\ last.stmt.value # <<>>
    /\ \E d \in InnerSame : d.var_type = DeclaredType.ty
    /\ var_id_counter >= 2

(* ------------------------- claims C4 .. C8 ----------------------------- *)

IsFunctionDefinition == last.op = "check_stmt" /\ last.stmt.kind = "FunctionDefinition"

ParamsResolve(stmt) ==
    \A i \in 1..Len(stmt.parameters) : from_parsing_type(stmt.parameters[i].param_type).ok

ParamTypes(stmt) ==
    [i \in 1..Len(stmt.parameters) |-> from_parsing_type(stmt.parameters[i].param_type).ty]

ReturnTypeResolves(stmt) ==
    stmt.return_type = <<>> \/ from_parsing_type(stmt.return_type[1]).ok

(* Some scope of checker c holds a function with this name and these parameter types. *)
Registered(c, name, ps) ==
    \E i \in 1..Len(c.scopes) : \E k \in 1..Len(c.scopes[i].function_defs) :
        /\ c.scopes[i].function_defs[k].identifier = name
        /\ c.scopes[i].function_defs[k].parameter_types = ps

(* The call f(p1, ..., pn) of a function to itself with its own parameters. *)
SelfCall(stmt) ==
    FunctionCall(stmt.identifier,
                 [i \in 1..Len(stmt.parameters) |-> Variable(stmt.parameters[i].identifier)])

IsSelfRecursive(stmt) ==
    /\ stmt.return_type # <<>>
    /\ stmt.block = <<Return(<<SelfCall(stmt)>>)>>

(* C4: a function whose body calls the function itself, with arguments of
   its parameter types, is accepted and registered. *)
C4_SelfCallResolves ==
    ( /\ IsFunctionDefinition
      /\ IsSelfRecursive(last.stmt)
      /\ ParamsResolve(last.stmt) /\ ReturnTypeResolves(last.stmt)
      /\ ~Registered(last.pre, last.stmt.identifier, ParamTypes(last.stmt)) )
    => /\ last.ok
       /\ Registered(Self, last.stmt.identifier, ParamTypes(last.stmt))

(* C5: a definition whose name and parameter types are those of a function
   already registered fails with RedefinedExistingFunction, whatever its
   return type and body, and the registered definition is unchanged. *)
C5_RedefinitionFails ==
    ( /\ IsFunctionDefinition
      /\ ParamsResolve(last.stmt)
      /\ Registered(last.pre, last.stmt.identifier, ParamTypes(last.stmt)) )
    => /\ ~last.ok
       /\ last.err = RedefinedExistingFunction(last.stmt.identifier, ParamTypes(last.stmt))
       /\ function_lookup(Self, last.stmt.identifier, ParamTypes(last.stmt)).def =
          function_lookup(last.pre, last.stmt.identifier, ParamTypes(last.stmt)).def

FnNames == {"f", "g"}
SigTypes == {<<>>, <<TNum>>, <<TChar>>, <<TBool>>}

(* C6: function_lookup succeeds exactly on a registered (name, parameter
   types) pair and yields that definition; a definition fails as a
   redefinition only when that exact pair is registered and leaves the other
   overloads resolvable; a call matching no overload fails with
   FunctionNotInScope(name, argument types). *)
C6_OverloadBySignature ==
    /\ \A name \in FnNames : \A ps \in SigTypes :
          LET r == function_lookup(Self, name, ps)
          IN /\ r.ok <=> Registered(Self, name, ps)
             /\ r.ok => r.def[1].identifier = name /\ r.def[1].parameter_types = ps
             /\ ~r.ok => r.err = FunctionNotInScope(name, ps)
    /\ IsFunctionDefinition =>
          /\ last.err.kind = "RedefinedExistingFunction" =>
                Registered(last.pre, last.stmt.identifier, last.err.types)
          /\ \A name \in FnNames : \A ps \in SigTypes :
                Registered(last.pre, name, ps) =>
                   function_lookup(Self, name, ps) = function_lookup(last.pre, name, ps)
    /\ (last.op = "check_expr" /\ last.expr.kind = "FunctionCall") =>
          LET a == check_call_args(last.pre, last.expr.args, 1, <<>>)
          IN (a.ok /\ ~Registered(last.pre, last.expr.identifier, a.val)) =>
                /\ ~last.ok
                /\ last.err = FunctionNotInScope(last.expr.identifier, a.val)

(* f(Num) and f(Char) are both registered and the call f(true) was refused. *)
C6_Witness ==
    /\ Registered(Self, "f", <<TNum>>)
    /\ Registered(Self, "f", <<TChar>>)
    /\ last.op = "check_expr"
    /\ last.err = FunctionNotInScope("f", <<TBool>>)

(* The body of the function definition of the last call, checked on its own. *)
Body == check_block(last.pre, last.stmt.block, last.stmt.parameters)

DeclaredReturn == from_parsing_type(last.stmt.return_type[1]).ty

SameType(a, b) == a = b

(* The four cases of the return type validation, for a notion of "the same type". *)
ReturnCases(same(_, _)) ==
    ( /\ IsFunctionDefinition
      /\ Body.ok
      /\ ReturnTypeResolves(last.stmt)
      /\ ~Registered(Body.c, last.stmt.identifier, Body.ptypes) )
    => IF last.stmt.return_type # <<>>
       THEN IF Body.val = <<>>
            THEN /\ ~last.ok
                 /\ last.err = FunctionDoesNotReturn(last.stmt.identifier, Body.ptypes,
                                                     DeclaredReturn)
            ELSE IF same(Body.val[1], DeclaredReturn)
                 THEN /\ last.ok
                      /\ Registered(Self, last.stmt.identifier, Body.ptypes)
                 ELSE /\ ~last.ok
                      /\ last.err = UnexpectedType(DeclaredReturn, Body.val[1])
       ELSE IF Body.val # <<>>
            THEN /\ ~last.ok
                 /\ last.err = VoidFunctionReturnsValue(last.stmt.identifier, Body.ptypes,
                                                        Body.val[1])
            ELSE /\ last.ok
                 /\ Registered(Self, last.stmt.identifier, Body.ptypes)

(* C7 as stated: declared type T and body type T is accepted, a body type
   other than T fails with UnexpectedType, and the three other cases. *)
C7_ReturnCasesIdentical == ReturnCases(SameType)

(* C7 amended: the body type is accepted when it equals the declared type up
   to Any (Array(Any) against Array(T)) and fails with UnexpectedType
   otherwise; the three other cases as stated. *)
C7_ReturnCasesCompatible == ReturnCases(TypeEq)

(* A function declared to return Array(Num) whose body returns [] was accepted. *)
C7_Witness ==
    /\ IsFunctionDefinition /\ last.ok
    /\ last.stmt.return_type # <<>>
    /\ Body.ok /\ Body.val # <<>>
    /\ Body.val[1] # DeclaredReturn

RECURSIVE StmtResults(_, _, _)
(* Results of the statements of a block, each checked after the one before,
   up to and including the first that fails. *)
StmtResults(c, block, i) ==
    IF i > Len(block) THEN <<>>
    ELSE LET r == check_stmt(c, block[i])
         IN IF ~r.ok THEN <<r>> ELSE <<r>> \o StmtResults(r.c, block, i + 1)

Min(S) == CHOOSE m \in S : \A j \in S : m <= j

IsIfWhile == last.op = "check_stmt" /\ last.stmt.kind \in {"If", "While"}

Cond == expect_expr_type(last.pre, last.stmt.value[1], TBool)

DifferentType(a, b) == a # b
IncompatibleType(a, b) == ~TypeEq(a, b)

(* The return type of the block of the last If/While, for a notion of
   "a different type". *)
BlockReturn(different(_, _)) ==
    (IsIfWhile /\ Cond.ok) =>
        LET rs == StmtResults(begin_new_scope(Cond.c), last.stmt.block, 1)
            complete == Len(rs) = Len(last.stmt.block) /\ \A i \in 1..Len(rs) : rs[i].ok
            rets == {i \in 1..Len(rs) : rs[i].ok /\ rs[i].val # <<>>}
        IN IF rets = {} THEN complete => last.ok /\ last.val = <<>>
           ELSE LET first == rs[Min(rets)].val[1]
                    clash == {j \in rets : j > Min(rets) /\ different(rs[j].val[1], first)}
                IN IF clash # {}
                   THEN /\ ~last.ok
                        /\ last.err = UnexpectedType(first, rs[Min(clash)].val[1])
                   ELSE complete => last.ok /\ last.val = <<first>>

(* C8 as stated: a later return of the block, direct or bubbled up, whose type
   is not the first return type makes the block fail with
   UnexpectedType{first, new}; otherwise the block yields the first type. *)
C8_FirstReturnFixesTypeIdentical == BlockReturn(DifferentType)

(* C8 amended: the later return makes the block fail when its type is not
   equal to the first return type up to Any; otherwise the block yields the
   first return type. *)
C8_FirstReturnFixesTypeCompatible == BlockReturn(IncompatibleType)

(* A Num return bubbled up from a nested if, then a Bool return: refused. *)
C8_Witness ==
    /\ IsIfWhile
    /\ last.stmt.block # <<>> /\ last.stmt.block[1].kind = "If"
    /\ last.err = UnexpectedType(TNum, TBool)

(* ------------------------ claims C9 .. C10 ----------------------------- *)

(* The statements of the program checked one after the other on a new
   checker, up to and including the first whose check fails. *)
Replay == StmtResults(begin_new_scope(new), program, 1)

ReplayFailed == Replay # <<>> /\ ~Replay[Len(Replay)].ok

(* C9: execute returns the error of the first statement of the stream whose
   check fails, with no IR, and takes no statement after it; it returns the
   IR when every statement checked; statements are taken in stream order. *)
C9_FailFast ==
    /\ taken \o stmts = program
    /\ pc = "loop" => Len(taken) <= Len(Replay) /\ \A i \in 1..Len(taken) : Replay[i].ok
    /\ pc = "done" =>
          IF ReplayFailed
          THEN /\ result = ExecResult("Err", <<>>, Replay[Len(Replay)].err)
               /\ Len(taken) = Len(Replay)
               /\ stmts = SubSeq(program, Len(Replay) + 1, Len(program))
          ELSE /\ result.status = "Ok"
               /\ stmts = <<>>
               /\ result.ir = final_ir
               /\ result.ir = end_scope(IF Replay = <<>> THEN begin_new_scope(new)
                                        ELSE Replay[Len(Replay)].c).final_ir

(* execute ended with the error of the second statement, the first having
   been checked and a third left in the stream. *)
C9_Witness ==
    /\ pc = "done"
    /\ result.status = "Err"
    /\ Len(taken) = 2
    /\ stmts # <<>>
    /\ final_ir # <<>>

(* C10: a function whose definition was checked successfully is found by
   function_lookup at every later point of the compilation. *)
C10_FunctionNeverRemoved ==
    pc = "loop" =>
        \A i \in 1..Len(log) :
            log[i].ev = "introduce_function" =>
                function_lookup(Self, log[i].identifier, log[i].types).ok

(* ------------------------ claims C11 .. C15 ---------------------------- *)

(* Events added to the history by the last call. *)
NewEvents == SubSeq(log, Len(last.pre.log) + 1, Len(log))

IsTrueLiteral(e) == e.kind = "BooleanLiteral"

RECURSIVE FirstNested(_)
(* The name of the function definition met first in a block: its first
   statement, or the first statement of a leading if/while block, at any
   depth; "" when the block does not begin with one. *)
FirstNested(block) ==
    IF block = <<>> THEN ""
    ELSE IF block[1].kind = "FunctionDefinition" THEN block[1].identifier
    ELSE IF block[1].kind \in {"If", "While"} /\ IsTrueLiteral(block[1].value[1])
         THEN FirstNested(block[1].block)
         ELSE ""

(* C11: a function definition whose body begins with a function definition,
   directly or inside if/while blocks, fails with NestedFunctions(name of the
   nested function), and no function is registered during that check. *)
C11_NestedFunctionsRejected ==
    ( /\ IsFunctionDefinition
      /\ ParamsResolve(last.stmt)
      /\ FirstNested(last.stmt.block) # "" )
    => /\ ~last.ok
       /\ last.err.kind = "NestedFunctions"
       /\ last.err.identifier = FirstNested(last.stmt.block)
       /\ \A i \in 1..Len(NewEvents) : NewEvents[i].ev # "introduce_function"

(* The declaration of the last call reaches its initial value: its type
   resolves and the innermost scope holds no definition of another type. *)
ReachesInitialValue ==
    /\ IsDeclaration
    /\ DeclaredType.ok
    /\ \A d \in InnerSame : d.var_type = DeclaredType.ty
    /\ last.stmt.value # <<>>

(* C12: a declaration of type Array(T) accepts [], a declaration of type
   Array(Array(Num)) accepts [[], [1]], a declaration of a type that is not an
   array refuses [] with UnexpectedType{declared type, Array(Any)}, and the
   literal [1, true] is refused with UnexpectedType{Num, Bool}. *)
C12_ArrayCompatibility ==
    /\ (ReachesInitialValue /\ last.stmt.value[1] = EmptyArray) =>
          IF Head(DeclaredType.ty) = "Array"
          THEN last.ok
          ELSE ~last.ok /\ last.err = UnexpectedType(DeclaredType.ty, TArray(TAny))
    /\ ( /\ ReachesInitialValue
         /\ last.stmt.value[1] = EmptyAndNumArray
         /\ DeclaredType.ty = TArray(TArray(TNum)) ) => last.ok
    /\ (ReachesInitialValue /\ last.stmt.value[1] = NumThenBool) =>
          ~last.ok /\ last.err = UnexpectedType(TNum, TBool)
    /\ (last.op = "check_expr" /\ last.expr = NumThenBool) =>
          ~last.ok /\ last.err = UnexpectedType(TNum, TBool)
    /\ (last.op = "check_expr" /\ last.expr = EmptyAndNumArray) => last.ok

(* The declaration of a : Array(Array(Num)) with [[], [1]] was accepted. *)
C12_Witness ==
    /\ ReachesInitialValue /\ last.ok
    /\ last.stmt.value[1] = EmptyAndNumArray
    /\ DeclaredType.ty = TArray(TArray(TNum))
    /\ final_ir[Len(final_ir)].op = "Store"

IsArithmetic == last.op = "check_expr" /\ last.expr.kind \in ArithmeticKinds

(* The operands of the arithmetic expression of the last call: the left one
   checked first, the right one after it, and the right one on its own. *)
LeftOperand == check_expr(last.pre, last.expr.args[1])
RightOperand == check_expr(LeftOperand.c, last.expr.args[2])
RightAlone == check_expr(last.pre, last.expr.args[2])

(* Instructions a check appended to the IR of the checker it started from. *)
IrOf(r, c) == SubSeq(r.c.final_ir, Len(c.final_ir) + 1, Len(r.c.final_ir))

(* C13: for + - * / > <, a left operand that is not Num fails with
   UnexpectedType{Num, left type} whatever the right operand and nothing is
   emitted after the left operand; a right operand that is not Num fails with
   UnexpectedType{Num, right type} and no opcode is emitted; with two Num
   operands the IR appended is the left operand's instructions, the right
   operand's, and the one opcode of the operator, and the type is Bool for
   > and < and Num for + - * /. *)
C13_Arithmetic ==
    IsArithmetic =>
        /\ (LeftOperand.ok /\ LeftOperand.val[1] # TNum) =>
              /\ ~last.ok
              /\ last.err = UnexpectedType(TNum, LeftOperand.val[1])
              /\ final_ir = LeftOperand.c.final_ir
        /\ (LeftOperand.ok /\ LeftOperand.val[1] = TNum
                /\ RightOperand.ok /\ RightOperand.val[1] # TNum) =>
              /\ ~last.ok
              /\ last.err = UnexpectedType(TNum, RightOperand.val[1])
              /\ final_ir = RightOperand.c.final_ir
        /\ (LeftOperand.ok /\ LeftOperand.val[1] = TNum
                /\ RightOperand.ok /\ RightOperand.val[1] = TNum) =>
              /\ last.ok
              /\ final_ir = last.pre.final_ir \o IrOf(LeftOperand, last.pre)
                               \o IrOf(RightAlone, last.pre) \o <<Instr(last.expr.kind, "", 0)>>
              /\ last.val = IF last.expr.kind \in {"GreaterThan", "LessThan"}
                            THEN <<TBool>> ELSE <<TNum>>
        /\ scopes = last.pre.scopes
        /\ var_id_counter = last.pre.var_id_counter

(* (1 + 2) * x was checked with x : Num in scope: five instructions, the
   last one Multiply. *)
C13_Witness ==
    /\ IsArithmetic /\ last.ok
    /\ last.expr.kind = "Multiply"
    /\ Len(Appended) = 5
    /\ Appended[3] = Opcode("Add")
    /\ Appended[4].op = "Push" /\ Appended[4].kind = "Variable"
    /\ Appended[5] = Opcode("Multiply")

(* Ids given to the parameters of the function definition of the last call,
   in parameter order: the VariableDefs of the scope of its body. *)
ParameterIds ==
    [i \in 1..Len(last.stmt.parameters) |-> last.pre.var_id_counter + i - 1]

(* Instructions of the body of the function definition of the last call,
   without the deallocations of the end of its scope. *)
BodyIr ==
    LET s == check_block_stmts(
                check_block_params(begin_new_scope(last.pre), last.stmt.parameters, 1, <<>>).c,
                last.stmt.block, 1, <<>>)
    IN IrOf(s, last.pre)

(* C14: a successful check of a function definition with n parameters appends
   a Function marker, then n Parameter bindings naming the parameters' ids in
   parameter order, then the instructions of the body. *)
C14_FunctionPrologue ==
    (IsFunctionDefinition /\ last.ok) =>
        LET n == Len(last.stmt.parameters)
        IN /\ Len(Appended) >= 1 + n + Len(BodyIr)
           /\ Appended[1].op = "Function"
           /\ \A i \in 1..n : Appended[1 + i] = Instr("Parameter", "", ParameterIds[i])
           /\ SubSeq(Appended, n + 2, n + 1 + Len(BodyIr)) = BodyIr

(* C15: a successful check of an if statement appends the condition's
   instructions, JumpIfFalse(L), the block's instructions and Label(L), L
   being the id of no earlier label; every jump target of the IR has exactly
   one Label and no label id occurs twice. *)
C15_IfJumpAndLabel ==
    /\ (last.op = "check_stmt" /\ last.stmt.kind = "If" /\ last.ok) =>
          LET c == IrOf(Cond, last.pre)
              b == IrOf(check_block(Cond.c, last.stmt.block, <<>>), Cond.c)
          IN /\ Len(Appended) = Len(c) + Len(b) + 2
             /\ SubSeq(Appended, 1, Len(c)) = c
             /\ Appended[Len(c) + 1].op = "JumpIfFalse"
             /\ SubSeq(Appended, Len(c) + 2, Len(c) + 1 + Len(b)) = b
             /\ Appended[Len(Appended)] = Instr("Label", "", Appended[Len(c) + 1].arg)
             /\ \A i \in 1..Len(last.pre.final_ir) :
                   last.pre.final_ir[i].op = "Label" =>
                      last.pre.final_ir[i].arg # Appended[Len(c) + 1].arg
    /\ \A i \in 1..Len(final_ir) :
          final_ir[i].op \in {"Jump", "JumpIfTrue", "JumpIfFalse"} =>
             Cardinality({j \in 1..Len(final_ir) :
                             final_ir[j] = Instr("Label", "", final_ir[i].arg)}) = 1
    /\ \A i, j \in 1..Len(final_ir) :
          (final_ir[i].op = "Label" /\ final_ir[j].op = "Label" /\ i # j) =>
             final_ir[i].arg # final_ir[j].arg

(* ------------------------ claims C16 .. C20 ---------------------------- *)

IsIntroduction(e) == e.ev = "introduce_variable"

(* The VariableDefs created so far, in the order of their creation. *)
Introductions(lg) == SelectSeq(lg, IsIntroduction)

(* Positions (scope, index) of the VariableDefs held by the stack. *)
LiveDefs == {p \in (1..Len(scopes)) \X (1..var_id_counter) : p[2] <= Len(scopes[p[1]].variable_defs)}

(* C16: the k-th VariableDef created has id k - 1, the value of the counter
   at its creation, and the counter is the number of VariableDefs created;
   the counter never decreases over a call; no two VariableDefs, held by the
   stack or already dropped, have the same id. *)
C16_UniqueMonotonicIds ==
    /\ var_id_counter = Len(Introductions(log))
    /\ \A k \in 1..Len(Introductions(log)) : Introductions(log)[k].id = k - 1
    /\ last.pre.var_id_counter <= var_id_counter
    /\ last.pre.var_id_counter = Len(Introductions(last.pre.log))
    /\ SubSeq(log, 1, Len(last.pre.log)) = last.pre.log
    /\ \A p \in LiveDefs :
          LET d == scopes[p[1]].variable_defs[p[2]]
          IN /\ d.id \in 0..(var_id_counter - 1)
             /\ Introductions(log)[d.id + 1] =
                   Event("introduce_variable", d.identifier, <<d.var_type>>, d.id)
    /\ \A p, q \in LiveDefs :
          p # q => scopes[p[1]].variable_defs[p[2]].id # scopes[q[1]].variable_defs[q[2]].id

(* Four variables were created, parameters among them; one created before
   the last call is held by no scope any more, and the name y was given two
   ids. *)
C16_Witness ==
    /\ var_id_counter >= 4
    /\ \E k \in 1..Len(Introductions(log)) : Introductions(log)[k].identifier = "b"
    /\ \E id \in 0..(last.pre.var_id_counter - 1) :
          \A p \in LiveDefs : scopes[p[1]].variable_defs[p[2]].id # id
    /\ \E j, k \in 1..Len(Introductions(log)) :
          /\ j # k
          /\ Introductions(log)[j].identifier = "y"
          /\ Introductions(log)[k].identifier = "y"

IsScopeEvent(e) == e.ev \in {"begin_new_scope", "end_scope"}

HasBlock(stmt) == stmt.kind \in {"If", "While", "FunctionDefinition"}

RECURSIVE BlockNesting(_, _, _)
(* The begin and end of scope that the nesting of the blocks of the
   statements block[i..] asks for, a block at this depth opening scope
   number depth. *)
BlockNesting(block, i, depth) ==
    IF i > Len(block) THEN <<>>
    ELSE (IF HasBlock(block[i])
          THEN <<Event("begin_new_scope", "", <<>>, depth)>>
                  \o BlockNesting(block[i].block, 1, depth + 1)
                  \o <<Event("end_scope", "", <<>>, depth)>>
          ELSE <<>>)
         \o BlockNesting(block, i + 1, depth)

(* C17: when execute returns Ok, the scopes begun and ended are those of the
   program scope and of the blocks of the stream, each ended before the one
   enclosing it, and the stack is empty; the assertion of execute never
   fails. *)
C17_ScopesBalanced ==
    /\ result.status # "Panic"
    /\ result.status = "Ok" =>
          /\ scopes = <<>>
          /\ SelectSeq(log, IsScopeEvent) =
                <<Event("begin_new_scope", "", <<>>, 1)>>
                   \o BlockNesting(program, 1, 2)
                   \o <<Event("end_scope", "", <<>>, 1)>>

(* execute returned Ok on a stream of three statements with a function
   definition inside an if block and variables of the program scope. *)
C17_Witness ==
    /\ pc = "done"
    /\ result.status = "Ok"
    /\ Len(program) = 3
    /\ \E i \in 1..Len(log) : log[i].ev = "end_scope" /\ log[i].id = 3
    /\ \E i \in 1..Len(result.ir) : result.ir[i].op = "Deallocate"

IsBlockStatement == last.op = "check_stmt" /\ HasBlock(last.stmt)

(* Depth of the stack after the first i events of the last call. *)
DepthAfter(i) ==
    Len(last.pre.scopes)
        + Cardinality({j \in 1..i : NewEvents[j].ev = "begin_new_scope"})
        - Cardinality({j \in 1..i : NewEvents[j].ev = "end_scope"})

RECURSIVE BlockScopeIds(_)
(* Ids of the VariableDefs put into the scope of the block of the last call
   (parameters and locals, not those of nested blocks), in insertion order,
   from event i on. *)
BlockScopeIds(i) ==
    IF i > Len(NewEvents) THEN <<>>
    ELSE (IF NewEvents[i].ev = "introduce_variable" /\ DepthAfter(i) = Len(last.pre.scopes) + 1
          THEN <<NewEvents[i].id>> ELSE <<>>)
         \o BlockScopeIds(i + 1)

(* C18: when the check of a block succeeds, with or without a return in it,
   the stack has the depth it had before, and the instructions appended end
   with one Deallocate per VariableDef of the block's scope, in insertion
   order, none of these ids being deallocated earlier. *)
C18_BlockClosesScope ==
    (IsBlockStatement /\ last.ok) =>
        LET ids == BlockScopeIds(1)
            n == Len(ids)
        IN /\ Len(scopes) = Len(last.pre.scopes)
           /\ Len(Appended) >= n
           /\ SubSeq(Appended, Len(Appended) - n + 1, Len(Appended)) =
                 [k \in 1..n |-> Deallocate(ids[k])]
           /\ \A k \in 1..n :
                 Cardinality({i \in 1..Len(Appended) : Appended[i] = Deallocate(ids[k])}) = 1

(* An if block with a local variable and a return of it was checked: the
   Deallocate of the local follows the ReturnValue. *)
C18_Witness ==
    /\ IsBlockStatement /\ last.ok
    /\ last.val # <<>>
    /\ Len(BlockScopeIds(1)) = 1
    /\ Len(Appended) >= 2
    /\ Appended[Len(Appended) - 1] = ReturnValue
    /\ Appended[Len(Appended)].op = "Deallocate"

(* C19: when check_stmt returns an error, the stack has the depth it had
   when the call began. *)
C19_ErrorRestoresDepth ==
    (last.op = "check_stmt" /\ ~last.ok) => Len(scopes) = Len(last.pre.scopes)

IsVariableUse(instruction) ==
    \/ instruction.op \in {"Store", "Deallocate"}
    \/ instruction.op = "Push" /\ instruction.kind = "Variable"

(* C20: in the IR returned by a successful execute, every Push(Variable(id)),
   Store(id) and Deallocate(id) comes after exactly one Allocate(id) or
   Parameter(id), Deallocate(id) occurs at most once, and no
   Push(Variable(id)) or Store(id) comes after Deallocate(id). *)
C20_LifetimesBracketed ==
    result.status = "Ok" =>
        \A i \in 1..Len(result.ir) :
            IsVariableUse(result.ir[i]) =>
                /\ Cardinality({j \in 1..(i - 1) :
                                   result.ir[j] \in {Allocate(result.ir[i].arg),
                                                     Instr("Parameter", "", result.ir[i].arg)}}) = 1
                /\ result.ir[i].op = "Deallocate" =>
                      \A j \in 1..Len(result.ir) : result.ir[j] = result.ir[i] => j = i
                /\ result.ir[i].op # "Deallocate" =>
                      \A j \in 1..(i - 1) : result.ir[j] # Deallocate(result.ir[i].arg)

(* ------------------------ claims C21 .. C24 ---------------------------- *)

RECURSIVE ReturnsOf(_, _, _)
(* What the return statements of block[i..] return, at any depth of if and
   while blocks, the statements being checked in order from checker c:
   <<>> for a bare return, <<type>> for a return of a value. *)
ReturnsOf(c, block, i) ==
    IF i > Len(block) THEN {}
    ELSE LET r == check_stmt(c, block[i])
             cond == expect_expr_type(c, block[i].value[1], TBool)
         IN (IF block[i].kind = "Return" /\ r.ok THEN {r.val}
             ELSE IF block[i].kind \in {"If", "While"} /\ cond.ok
                  THEN ReturnsOf(begin_new_scope(cond.c), block[i].block, 1)
                  ELSE {})
            \cup (IF r.ok THEN ReturnsOf(r.c, block, i + 1) ELSE {})

(* The returns of the body of the function definition of the last call. *)
BodyReturns ==
    ReturnsOf(check_block_params(begin_new_scope(last.pre), last.stmt.parameters, 1, <<>>).c,
              last.stmt.block, 1)

(* C21: in an accepted function definition with declared return type T every
   return of the body, at any depth of if/while blocks, returns a value of
   type T; in an accepted definition with no declared return type no return
   of the body returns a value. *)
C21_ReturnsAgreeWithSignature ==
    (IsFunctionDefinition /\ last.ok) =>
        IF last.stmt.return_type # <<>>
        THEN \A v \in BodyReturns : v = <<DeclaredReturn>>
        ELSE \A v \in BodyReturns : v = <<>>

(* Effect of an instruction on the depth of the evaluation stack. *)
StackEffect(instruction) ==
    IF instruction.op = "Push" THEN 1
    ELSE IF instruction.op \in {"Add", "Subtract", "Multiply", "Divide",
                                "GreaterThan", "LessThan", "Equals",
                                "Store", "ReturnValue", "JumpIfTrue", "JumpIfFalse"} THEN -1
    ELSE 0

RECURSIVE DepthChange(_, _)
(* Depth of the evaluation stack after the first n instructions of ir,
   relative to the depth before them. *)
DepthChange(ir, n) == IF n = 0 THEN 0 ELSE DepthChange(ir, n - 1) + StackEffect(ir[n])

(* C22: the instructions appended by a successful check of a variable
   declaration, assignment, return, if or while statement leave the depth of
   the evaluation stack as it was and never take it below that. *)
C22_StatementStackNeutral ==
    ( /\ last.op = "check_stmt" /\ last.ok
      /\ last.stmt.kind \in {"VariableDeclaration", "VariableAssignment", "Return", "If", "While"} )
    => /\ DepthChange(Appended, Len(Appended)) = 0
       /\ \A n \in 0..Len(Appended) : DepthChange(Appended, n) >= 0

RECURSIVE EachOnce(_, _)
RECURSIVE EachOnceOf(_, _, _)
(* The instructions of the expressions exprs[i..], one after the other. *)
EachOnceOf(c, exprs, i) ==
    IF i > Len(exprs) THEN <<>>
    ELSE EachOnce(c, exprs[i]) \o EachOnceOf(c, exprs, i + 1)

(* The IR of an expression when each of its sub-expressions is emitted once,
   in source order, followed by the expression's own instruction if it has
   one. *)
EachOnce(c, expr) ==
    EachOnceOf(c, expr.args, 1)
        \o (CASE expr.kind \in {"NumberLiteral", "BooleanLiteral", "CharLiteral", "Variable"} ->
                    IrOf(check_expr(c, expr), c)
              [] expr.kind \in ArithmeticKinds -> <<Instr(expr.kind, "", 0)>>
              [] expr.kind = "Equal" -> <<Instr("Equals", "", 0)>>
              [] OTHER -> <<>>)

(* C23: a successful check of an array literal or of a call appends the
   instructions of its elements or arguments, each once, in source order. *)
C23_SubExpressionsOnce ==
    (last.op = "check_expr" /\ last.ok /\ last.expr.kind \in {"Array", "FunctionCall"}) =>
        Appended = EachOnceOf(last.pre, last.expr.args, 1)

(* Depth of the stack after the first i operations of the history. *)
LogDepth(i) ==
    Cardinality({j \in 1..i : log[j].ev = "begin_new_scope"})
        - Cardinality({j \in 1..i : log[j].ev = "end_scope"})

(* Events i < j introduce VariableDefs into one and the same scope: at the
   same depth, that scope not having been ended in between. *)
SameScope(i, j) ==
    /\ i < j
    /\ log[i].ev = "introduce_variable" /\ log[j].ev = "introduce_variable"
    /\ LogDepth(i) = LogDepth(j)
    /\ \A k \in i..j : LogDepth(k) >= LogDepth(i)

(* C24: no scope holds, now or at any earlier time, two VariableDefs with the
   same identifier. *)
C24_NoDuplicateIdentifiers ==
    /\ \A s \in 1..Len(scopes) : \A i, j \in 1..Len(scopes[s].variable_defs) :
          i # j => scopes[s].variable_defs[i].identifier # scopes[s].variable_defs[j].identifier
    /\ \A i, j \in 1..Len(log) : SameScope(i, j) => log[i].identifier # log[j].identifier

====
